---- MODULE Spec2Model ----
(***************************************************************************)
(* Relay session of the OpenAI + ElevenLabs relay server: one client       *)
(* connection, its conversational upstream socket (openaiWs), its speech   *)
(* synthesis sockets (elevenLabsWs), the transcription pipeline and the    *)
(* STT provider orchestrator.  Every event handler of the session is one   *)
(* action; Node's event loop runs a handler to completion, so an action is *)
(* atomic exactly where the code is.                                       *)
(***************************************************************************)
EXTENDS Integers, Sequences, FiniteSets, TLC

\* ---------------------------------------------------------------- bounds
MaxClock == 3          \* the wall clock stops after this many seconds
MaxChars == 3          \* longest base64 payload of an audio.chunk, in characters
MaxClientMsgs == 4     \* client frames of one session
MaxSockets == 2        \* synthesis sockets one session creates
MaxTimers == 1         \* reconnect timers pending at once
MaxTextBuffer == 2     \* fragments kept in textBuffer
MaxMeasurements == 1   \* completed latency measurements kept
MaxHrSteps == 3        \* steps of the high-resolution clock

\* ------------------------------------------------------ program constants
MAX_AUDIO_BYTES == 3   \* process.env.MAX_AUDIO_BYTES (default 5242880)
MAX_AUDIO_SECONDS == 1 \* process.env.MAX_AUDIO_SECONDS (default 30)
MsPerSecond == 1000    \* Date.now() is in milliseconds
HrStep == 4            \* microseconds between two readings of process.hrtime()
HrQuantum == 10        \* toFixed(2) of milliseconds: hundredths, in microseconds

\* ------------------------------------------------------------- JS values
\* null / undefined is the empty tuple, a present value v is <<v>>.
Null == <<>>

Some(v) == <<v>>

\* a || b for a nullable a
OrElse(a, b) == IF a = Null THEN b ELSE a

\* status === n
StatusIs(status, n) == status = Some(n)

\* status >= n, false for undefined
StatusGE(status, n) == status # Null /\ status[1] >= n

\* status < n, false for undefined
StatusLT(status, n) == status # Null /\ status[1] < n

RECURSIVE SumSeq(_)
SumSeq(s) == IF s = <<>> THEN 0 ELSE s[1] + SumSeq(Tail(s))

\* Buffer.from(data, 'base64').length for a payload of n base64 characters
Base64DecodedLen(n) == (n * 3) \div 4

VARIABLES
    env,                 \* process.env flags read at startup
    now,                 \* Date.now()
    hrtime,              \* process.hrtime(), in microseconds
    clientWs,            \* clientWs.readyState
    openaiWs,            \* openaiWs.readyState
    openaiConnected,
    isReady,
    isResponsePending,
    currentResponseId,
    textBuffer,
    transcriptionState,
    sttCalls,            \* processTranscription calls suspended at their await
    latencyMetrics,
    elSockets,           \* readyState of every synthesis socket created
    elevenLabsWs,        \* index of the current synthesis socket, 0 = null
    elevenLabsConnected,
    timers,              \* pending setTimeout(connectToElevenLabs, 100)
    event,               \* the event the last handler processed
    clientOut,           \* messages the last handler sent to the client
    openaiOut,           \* messages the last handler sent to the conversational upstream
    elOut,               \* messages the last handler sent to the synthesis upstream
    hist                 \* history of the session (observers only)

vars == <<env, now, hrtime, clientWs, openaiWs, openaiConnected, isReady, isResponsePending,
          currentResponseId, textBuffer, transcriptionState, sttCalls, latencyMetrics,
          elSockets, elevenLabsWs, elevenLabsConnected, timers,
          event, clientOut, openaiOut, elOut, hist>>

TRANSCRIPTION_ENABLED == env.TRANSCRIPTION_ENABLED

STT_FAILOVER_ON_429 == env.STT_FAILOVER_ON_429

STT_FAILOVER_ON_5XX == env.STT_FAILOVER_ON_5XX

STT_FORCE_429_TESTIgnored == FALSE

STT_FORCE_429_TEST == env.STT_FORCE_429_TEST

\* the server exits at startup unless the key is set
ELEVENLABS_API_KEY_SET == TRUE

\* ================================================= STT provider orchestrator
\* What a provider's HTTP endpoint can answer: a status with a body (JSON or
\* not; a JSON body of a success may carry a text), or no response at all
\* (fetch rejects, no status on the error).
HttpStatuses == {200, 400, 401, 403, 429, 500, 599, 600}

ProviderResponses ==
    {[kind |-> "http", status |-> s, text |-> Null, json |-> TRUE] : s \in HttpStatuses}
    \cup {[kind |-> "http", status |-> 200, text |-> Some("hello"), json |-> TRUE]}
    \cup {[kind |-> "http", status |-> s, text |-> Null, json |-> FALSE] : s \in {200, 500}}
    \cup {[kind |-> "network", status |-> 0, text |-> Null, json |-> FALSE]}

\* response.ok
ResponseOk(resp) == resp.status >= 200 /\ resp.status <= 299

MkError(message, status, provider) ==
    [message |-> message, status |-> status, provider |-> provider,
     primaryError |-> Null, fallbackError |-> Null]

Returned(value) == [kind |-> "return", value |-> value]

Thrown(error) == [kind |-> "throw", error |-> error]

\* transcription/openai.js transcribe; the error body is read with
\* response.text(), the result with response.json()
OpenaiProviderTranscribe(resp) ==
    IF resp.kind = "network"
    THEN Thrown(MkError(<<"fetch failed">>, Null, Null))
    ELSE IF ~ResponseOk(resp)
    THEN Thrown(MkError(<<"OpenAI STT failed", resp.status>>, Some(resp.status), Some("openai")))
    ELSE IF ~resp.json
    THEN Thrown(MkError(<<"Unexpected token">>, Null, Null))
    ELSE Returned([text |-> OrElse(resp.text, Some(""))[1], provider |-> "openai"])

\* transcription/elevenlabs.js transcribe; the error body is read with
\* response.json() and, when that fails, again with response.text(), which
\* rejects because the body was already consumed
ElevenlabsProviderTranscribe(resp) ==
    IF ~ELEVENLABS_API_KEY_SET
    THEN Thrown(MkError(<<"ElevenLabs API key not configured">>, Some(500), Some("elevenlabs")))
    ELSE IF resp.kind = "network"
    THEN Thrown(MkError(<<"fetch failed">>, Null, Null))
    ELSE IF ~ResponseOk(resp)
    THEN IF resp.json
         THEN Thrown(MkError(<<"ElevenLabs STT failed", resp.status>>, Some(resp.status), Some("elevenlabs")))
         ELSE Thrown(MkError(<<"Body is unusable">>, Null, Null))
    ELSE IF ~resp.json
    THEN Thrown(MkError(<<"Unexpected token">>, Null, Null))
    ELSE Returned([text |-> OrElse(resp.text, Some(""))[1], provider |-> "elevenlabs"])

shouldFailoverAnyClientError(status) ==
    IF StatusGE(status, 400) /\ StatusLT(status, 500) /\ STT_FAILOVER_ON_429 THEN TRUE
    ELSE IF StatusGE(status, 500) /\ StatusLT(status, 600) /\ STT_FAILOVER_ON_5XX THEN TRUE
    ELSE FALSE

shouldFailoverIgnoreFlags(status) ==
    IF StatusIs(status, 401) \/ StatusIs(status, 403) THEN FALSE
    ELSE IF StatusIs(status, 429) THEN TRUE
    ELSE IF StatusGE(status, 500) /\ StatusLT(status, 600) THEN TRUE
    ELSE FALSE

shouldFailover(status) ==
    IF StatusIs(status, 401) \/ StatusIs(status, 403) THEN FALSE
    ELSE IF StatusIs(status, 429) /\ STT_FAILOVER_ON_429 THEN TRUE
    ELSE IF StatusGE(status, 500) /\ StatusLT(status, 600) /\ STT_FAILOVER_ON_5XX THEN TRUE
    ELSE FALSE

\* { ...fallbackResult, failover: true, failoverReason }: the reason is the
\* primary's status, or the string simulated_429 in test mode
TagFailover(result, reason) ==
    [text |-> result.text, provider |-> result.provider,
     failover |-> TRUE, failoverReason |-> reason]

\* the error the fallback's catch block throws
CombinedErrorFallbackOnly(primaryError, fallbackError) == fallbackError

CombinedError(primaryError, fallbackError) ==
    [message |-> <<"Both providers failed", primaryError.status, fallbackError.status>>,
     status |-> fallbackError.status,
     provider |-> Null,
     primaryError |-> Some(primaryError),
     fallbackError |-> Some(fallbackError)]

\* transcribe(audioBuffer, format, logFn): the outcome, and the providers it
\* invoked in order.  primary / secondary are the answers the two endpoints
\* give if asked.
transcribe(primary, secondary) ==
    IF STT_FORCE_429_TEST
    THEN LET fb == ElevenlabsProviderTranscribe(secondary) IN
         [invoked |-> <<"elevenlabs">>,
          outcome |-> IF fb.kind = "return"
                      THEN Returned(TagFailover(fb.value, <<"simulated_429">>))
                      ELSE fb]
    ELSE LET pr == OpenaiProviderTranscribe(primary) IN
         IF pr.kind = "return"
         THEN [invoked |-> <<"openai">>, outcome |-> pr]
         ELSE IF ~shouldFailover(pr.error.status)
         THEN [invoked |-> <<"openai">>, outcome |-> pr]
         ELSE LET fb == ElevenlabsProviderTranscribe(secondary) IN
              [invoked |-> <<"openai", "elevenlabs">>,
               outcome |-> IF fb.kind = "return"
                           THEN Returned(TagFailover(fb.value, <<"status", pr.error.status>>))
                           ELSE Thrown(CombinedError(pr.error, fb.error))]


\* ===================================================== messages and events
NoStart == [format |-> Null, sampleRate |-> Null, encoding |-> Null]

NoData == [kind |-> "absent", chars |-> 0]

\* the payload fields of audio.start the client may set
StartPayloads ==
    {NoStart, [format |-> Some("wav"), sampleRate |-> Some(8000), encoding |-> Some("pcm")]}

\* the data field of audio.chunk: absent (or empty), a base64 string of
\* chars characters, or a JSON number (not a string)
ChunkData ==
    {NoData, [kind |-> "number", chars |-> 0]}
    \cup {[kind |-> "base64", chars |-> n] : n \in 1..MaxChars}

ControlTypes == {"audio.start", "audio.chunk", "audio.end", "tts.stop"}

\* message types the relay does not recognise; the frontend sends such frames
OtherClientTypes == {"response.create", "input_audio_buffer.append"}

Frame(json, type, start, data) ==
    [json |-> json, type |-> type, start |-> start, data |-> data]

ClientFrames ==
    {Frame(TRUE, "audio.start", s, NoData) : s \in StartPayloads}
    \cup {Frame(TRUE, "audio.chunk", NoStart, d) : d \in ChunkData}
    \cup {Frame(TRUE, t, NoStart, NoData) : t \in {"audio.end", "tts.stop"} \cup OtherClientTypes}
    \cup {Frame(FALSE, "", NoStart, NoData)}

\* ================================================== transcription pipeline
IdleState ==
    [status |-> "idle", audioChunks |-> <<>>, totalBytes |-> 0, startTime |-> Null,
     format |-> Null, sampleRate |-> Null, encoding |-> Null]

\* the state resetTranscriptionState() installs
resetTranscriptionStateStatusOnly == [transcriptionState EXCEPT !.status = "idle"]

resetTranscriptionState == IdleState

\* sendTranscriptError / sendTranscriptFinal: the frames put on the client socket
sendTranscriptError(code, message) ==
    IF clientWs = "OPEN"
    THEN <<[type |-> "transcript.error", code |-> code, message |-> message]>>
    ELSE <<>>

sendTranscriptFinal(text, durationMs, provider, failover) ==
    IF clientWs = "OPEN"
    THEN <<[type |-> "transcript.final", text |-> text, duration_ms |-> durationMs,
            provider |-> provider, failover |-> IF failover THEN Some(TRUE) ELSE Null]>>
    ELSE <<>>

\* (Date.now() - startTime) / 1000 > MAX_AUDIO_SECONDS
TooLong(ts) == now - ts.startTime[1] > MAX_AUDIO_SECONDS * MsPerSecond

\* A handler's effect on the pipeline: the new state, the frames sent to the
\* client, the transcription calls started, and whether it threw.
Effect(ts, out, calls, threw) == [ts |-> ts, out |-> out, calls |-> calls, threw |-> threw]

handleAudioStartNoStateCheck(payload) ==
    IF ~TRANSCRIPTION_ENABLED
    THEN Effect(transcriptionState,
                sendTranscriptError("disabled", <<"Transcription is not enabled on this server">>),
                <<>>, FALSE)
    ELSE Effect([status |-> "recording", audioChunks |-> <<>>, totalBytes |-> 0,
                 startTime |-> Some(now),
                 format |-> OrElse(payload.format, Some("webm")),
                 sampleRate |-> OrElse(payload.sampleRate, Some(16000)),
                 encoding |-> OrElse(payload.encoding, Some("opus"))],
                IF clientWs = "OPEN" THEN <<[type |-> "audio.started"]>> ELSE <<>>,
                <<>>, FALSE)

handleAudioStart(payload) ==
    IF ~TRANSCRIPTION_ENABLED
    THEN Effect(transcriptionState,
                sendTranscriptError("disabled", <<"Transcription is not enabled on this server">>),
                <<>>, FALSE)
    ELSE IF transcriptionState.status # "idle"
    THEN Effect(transcriptionState,
                sendTranscriptError("invalid_state", <<"audio.start received while already recording">>),
                <<>>, FALSE)
    ELSE Effect([status |-> "recording", audioChunks |-> <<>>, totalBytes |-> 0,
                 startTime |-> Some(now),
                 format |-> OrElse(payload.format, Some("webm")),
                 sampleRate |-> OrElse(payload.sampleRate, Some(16000)),
                 encoding |-> OrElse(payload.encoding, Some("opus"))],
                IF clientWs = "OPEN" THEN <<[type |-> "audio.started"]>> ELSE <<>>,
                <<>>, FALSE)

handleAudioChunkNoSizeCheck(data) ==
    IF ~TRANSCRIPTION_ENABLED
    THEN Effect(transcriptionState, sendTranscriptError("disabled", <<"Transcription is not enabled">>), <<>>, FALSE)
    ELSE IF transcriptionState.status # "recording"
    THEN Effect(transcriptionState,
                sendTranscriptError("invalid_state", <<"audio.chunk received without audio.start">>), <<>>, FALSE)
    ELSE IF data.kind = "absent"
    THEN Effect(transcriptionState,
                sendTranscriptError("invalid_payload", <<"audio.chunk missing data field">>), <<>>, FALSE)
    ELSE IF data.kind = "number"
    THEN Effect(transcriptionState, <<>>, <<>>, TRUE)
    ELSE LET chunk == Base64DecodedLen(data.chars)
             newTotalBytes == transcriptionState.totalBytes + chunk
         IN IF TooLong(transcriptionState)
            THEN Effect(resetTranscriptionState,
                        sendTranscriptError("audio_too_long", <<"Audio exceeds second limit">>), <<>>, FALSE)
            ELSE Effect([transcriptionState EXCEPT
                            !.audioChunks = Append(@, chunk),
                            !.totalBytes = newTotalBytes],
                        <<>>, <<>>, FALSE)

handleAudioChunk(data) ==
    IF ~TRANSCRIPTION_ENABLED
    THEN Effect(transcriptionState, sendTranscriptError("disabled", <<"Transcription is not enabled">>), <<>>, FALSE)
    ELSE IF transcriptionState.status # "recording"
    THEN Effect(transcriptionState,
                sendTranscriptError("invalid_state", <<"audio.chunk received without audio.start">>), <<>>, FALSE)
    ELSE IF data.kind = "absent"
    THEN Effect(transcriptionState,
                sendTranscriptError("invalid_payload", <<"audio.chunk missing data field">>), <<>>, FALSE)
    ELSE IF data.kind = "number"
    \* Buffer.from(<number>, 'base64') throws a TypeError
    THEN Effect(transcriptionState, <<>>, <<>>, TRUE)
    ELSE LET chunk == Base64DecodedLen(data.chars)
             newTotalBytes == transcriptionState.totalBytes + chunk
         IN IF newTotalBytes > MAX_AUDIO_BYTES
            THEN Effect(resetTranscriptionState,
                        sendTranscriptError("audio_too_large", <<"Audio exceeds byte limit">>), <<>>, FALSE)
            ELSE IF TooLong(transcriptionState)
            THEN Effect(resetTranscriptionState,
                        sendTranscriptError("audio_too_long", <<"Audio exceeds second limit">>), <<>>, FALSE)
            ELSE Effect([transcriptionState EXCEPT
                            !.audioChunks = Append(@, chunk),
                            !.totalBytes = newTotalBytes],
                        <<>>, <<>>, FALSE)

\* processTranscription up to its await: the call carries what the
\* continuation uses (recordingDuration, format) and the id of its audio.end
processTranscriptionKeepStatus(id) ==
    IF Len(transcriptionState.audioChunks) = 0
    THEN Effect(resetTranscriptionState,
                sendTranscriptError("no_audio", <<"No audio data received">>), <<>>, FALSE)
    ELSE Effect(transcriptionState,
                <<>>,
                <<[id |-> id,
                   audioBuffer |-> SumSeq(transcriptionState.audioChunks),
                   recordingDuration |-> IF transcriptionState.startTime # Null
                                         THEN now - transcriptionState.startTime[1]
                                         ELSE 0,
                   format |-> transcriptionState.format]>>,
                FALSE)

processTranscription(id) ==
    IF Len(transcriptionState.audioChunks) = 0
    THEN Effect(resetTranscriptionState,
                sendTranscriptError("no_audio", <<"No audio data received">>), <<>>, FALSE)
    ELSE Effect([transcriptionState EXCEPT !.status = "processing"],
                <<>>,
                <<[id |-> id,
                   audioBuffer |-> SumSeq(transcriptionState.audioChunks),
                   recordingDuration |-> IF transcriptionState.startTime # Null
                                         THEN now - transcriptionState.startTime[1]
                                         ELSE 0,
                   format |-> transcriptionState.format]>>,
                FALSE)

handleAudioEnd(id) ==
    IF ~TRANSCRIPTION_ENABLED
    THEN Effect(transcriptionState, sendTranscriptError("disabled", <<"Transcription is not enabled">>), <<>>, FALSE)
    ELSE IF transcriptionState.status # "recording"
    THEN Effect(transcriptionState,
                sendTranscriptError("invalid_state", <<"audio.end received without audio.start">>), <<>>, FALSE)
    ELSE IF TooLong(transcriptionState)
    THEN Effect(resetTranscriptionState,
                sendTranscriptError("audio_too_long", <<"Audio exceeds second limit">>), <<>>, FALSE)
    ELSE processTranscription(id)

\* the errorCode processTranscription's catch derives from error.status
ErrorCodeNoAuth(status) ==
    IF StatusIs(status, 429) THEN "rate_limited"
    ELSE IF StatusGE(status, 500) THEN "server_error"
    ELSE "internal_error"

ErrorCode(status) ==
    IF StatusIs(status, 429) THEN "rate_limited"
    ELSE IF StatusIs(status, 401) \/ StatusIs(status, 403) THEN "auth_error"
    ELSE IF StatusGE(status, 500) THEN "server_error"
    ELSE "internal_error"

\* processTranscription after its await, given transcribe's outcome
processTranscriptionResumeSilent(call, outcome) ==
    IF outcome.kind = "return"
    THEN sendTranscriptFinal(outcome.value.text, call.recordingDuration,
                             outcome.value.provider,
                             "failover" \in DOMAIN outcome.value /\ outcome.value.failover)
    ELSE <<>>

processTranscriptionResume(call, outcome) ==
    IF outcome.kind = "return"
    THEN sendTranscriptFinal(outcome.value.text, call.recordingDuration,
                             outcome.value.provider,
                             "failover" \in DOMAIN outcome.value /\ outcome.value.failover)
    ELSE sendTranscriptError(ErrorCode(outcome.error.status), outcome.error.message)


\* ========================================================= session state
Init ==
    /\ env \in [TRANSCRIPTION_ENABLED : BOOLEAN, STT_FAILOVER_ON_429 : BOOLEAN,
                STT_FAILOVER_ON_5XX : BOOLEAN, STT_FORCE_429_TEST : BOOLEAN]
    /\ now = MsPerSecond
    /\ hrtime = 0
    /\ clientWs = "OPEN"
    /\ openaiWs = "CONNECTING"
    /\ openaiConnected = FALSE
    /\ isReady = FALSE
    /\ isResponsePending = FALSE
    /\ currentResponseId = Null
    /\ textBuffer = <<>>
    /\ transcriptionState = IdleState
    /\ sttCalls = <<>>
    /\ latencyMetrics = [t1SpeechStopped |-> Null, t2FirstTextDelta |-> Null,
                         t3FirstAudioDelta |-> Null, isFirstTextDelta |-> TRUE,
                         isFirstAudioDelta |-> TRUE, measurements |-> <<>>]
    /\ elSockets = <<>>
    /\ elevenLabsWs = 0
    /\ elevenLabsConnected = FALSE
    /\ timers = 0
    /\ event = [name |-> "connection"]
    /\ clientOut = <<>>
    /\ openaiOut = <<>>
    /\ elOut = <<>>
    /\ hist = [clientSeq |-> 0, blocked |-> {}, createdSeen |-> FALSE, updateSent |-> FALSE,
               updatedSeen |-> FALSE, confirmed |-> FALSE,
               acks |-> [created |-> FALSE, updated |-> FALSE],
               inFlight |-> 0, stops |-> 0, creates |-> 0,
               end |-> [phase |-> "none", answers |-> 0, connected |-> TRUE],
               tts |-> [starts |-> 0, unmarked |-> FALSE], reports |-> 0,
               spoken |-> {}]

\* Date.now() advances
Tick ==
    /\ now < MaxClock * MsPerSecond
    /\ now' = now + MsPerSecond
    /\ event' = [name |-> "tick"]
    /\ clientOut' = <<>> /\ openaiOut' = <<>> /\ elOut' = <<>>
    /\ UNCHANGED <<env, hrtime, clientWs, openaiWs, openaiConnected, isReady, isResponsePending,
                   currentResponseId, textBuffer, transcriptionState, sttCalls, latencyMetrics,
                   elSockets, elevenLabsWs, elevenLabsConnected, timers, hist>>

\* process.hrtime() advances
HrTick ==
    /\ hrtime < MaxHrSteps * HrStep
    /\ hrtime' = hrtime + HrStep
    /\ event' = [name |-> "hrtick"]
    /\ clientOut' = <<>> /\ openaiOut' = <<>> /\ elOut' = <<>>
    /\ UNCHANGED <<env, now, clientWs, openaiWs, openaiConnected, isReady, isResponsePending,
                   currentResponseId, textBuffer, transcriptionState, sttCalls, latencyMetrics,
                   elSockets, elevenLabsWs, elevenLabsConnected, timers, hist>>

\* ------------------------------------------------- synthesis link helpers
ElOpen == elevenLabsWs # 0 /\ elSockets[elevenLabsWs] = "OPEN"

\* connectToElevenLabs(): the sockets and the current socket afterwards
connectToElevenLabs ==
    IF ElOpen
    THEN [sockets |-> elSockets, cur |-> elevenLabsWs]
    ELSE [sockets |-> Append(elSockets, "CONNECTING"), cur |-> Len(elSockets) + 1]

\* a handler that calls connectToElevenLabs() is modelled while the session
\* may still create a socket
CanConnect == ElOpen \/ Len(elSockets) < MaxSockets

\* ------------------------------------------------------ client: message
\* the guard of the verbatim relay on the parsed path
relayGuardIdleOnly == isReady /\ openaiConnected /\ openaiWs = "OPEN" /\ ~isResponsePending

relayGuard == isReady /\ openaiConnected /\ openaiWs = "OPEN"

\* the guard of the relay in the catch block
catchGuardNoReady == openaiConnected /\ openaiWs = "OPEN"

catchGuard == isReady /\ openaiConnected /\ openaiWs = "OPEN"

\* the tts.stop branch: whether it closes the current synthesis socket, and
\* the reconnect timers it sets
ttsStopNoReconnect == [closes |-> ElOpen, timers |-> 0]

ttsStop == [closes |-> ElOpen, timers |-> IF ElOpen THEN 1 ELSE 0]

ClientWsOnMessage(f) ==
    /\ clientWs \in {"OPEN", "CLOSING"}
    /\ hist.clientSeq < MaxClientMsgs
    /\ LET id == hist.clientSeq + 1
           eff == IF ~f.json THEN Effect(transcriptionState, <<>>, <<>>, TRUE)
                  ELSE IF f.type = "audio.start" THEN handleAudioStart(f.start)
                  ELSE IF f.type = "audio.chunk" THEN handleAudioChunk(f.data)
                  ELSE IF f.type = "audio.end" THEN handleAudioEnd(id)
                  ELSE Effect(transcriptionState, <<>>, <<>>, FALSE)
           stop == f.json /\ f.type = "tts.stop" /\ ttsStop.closes
           set == IF f.json /\ f.type = "tts.stop" THEN ttsStop.timers ELSE 0
           relayed == IF eff.threw THEN catchGuard
                      ELSE f.type \notin ControlTypes /\ relayGuard
           sent == IF relayed
                   THEN <<[origin |-> "client", id |-> id, type |-> f.type, json |-> f.json]>>
                   ELSE <<>>
           endAccepted == f.json /\ f.type = "audio.end" /\ TRANSCRIPTION_ENABLED
                          /\ transcriptionState.status = "recording"
       IN /\ stop => timers < MaxTimers /\ Len(elSockets) < MaxSockets
          /\ transcriptionState' = eff.ts
          /\ sttCalls' = sttCalls \o eff.calls
          /\ clientOut' = eff.out
          /\ openaiOut' = sent
          /\ elOut' = <<>>
          /\ elSockets' = IF stop THEN [elSockets EXCEPT ![elevenLabsWs] = "CLOSING"] ELSE elSockets
          /\ timers' = timers + set
          /\ event' = [name |-> "client.message", frame |-> f, id |-> id]
          /\ hist' = [hist EXCEPT
                        !.clientSeq = id,
                        !.blocked = IF (~f.json \/ f.type \notin ControlTypes) /\ ~isReady
                                    THEN @ \cup {id} ELSE @,
                        !.inFlight = IF relayed /\ f.json /\ f.type = "response.create"
                                     THEN @ + 1 ELSE @,
                        !.end = IF endAccepted
                                THEN [phase |-> IF eff.calls = <<>> THEN "done" ELSE "pending",
                                      answers |-> Len(eff.out),
                                      connected |-> clientWs = "OPEN"]
                                ELSE @]
    /\ UNCHANGED <<env, hrtime, now, clientWs, openaiWs, openaiConnected, isReady, isResponsePending,
                   currentResponseId, textBuffer, latencyMetrics, elevenLabsWs,
                   elevenLabsConnected>>

\* ------------------------------------------------- client: socket closed
\* the pipeline state the close handler leaves
closeCleanupKeep == transcriptionState

closeCleanup == resetTranscriptionState

ClientWsOnClose ==
    /\ clientWs \in {"OPEN", "CLOSING"}
    /\ clientWs' = "CLOSED"
    /\ transcriptionState' = closeCleanup
    /\ openaiWs' = IF openaiWs = "OPEN" THEN "CLOSING" ELSE openaiWs
    /\ elSockets' = IF ElOpen THEN [elSockets EXCEPT ![elevenLabsWs] = "CLOSING"] ELSE elSockets
    /\ event' = [name |-> "client.close", status |-> transcriptionState.status,
                 chunks |-> Len(transcriptionState.audioChunks)]
    /\ clientOut' = <<>> /\ openaiOut' = <<>> /\ elOut' = <<>>
    /\ UNCHANGED <<env, hrtime, now, openaiConnected, isReady, isResponsePending, currentResponseId,
                   textBuffer, sttCalls, latencyMetrics, elevenLabsWs, elevenLabsConnected,
                   timers, hist>>

\* --------------------------- processTranscription resumes after its await
\* The two endpoints' answers are drawn here; transcribe decides which of
\* them it asks.
TranscribeDone(i, primary, secondary) ==
    /\ i \in 1..Len(sttCalls)
    /\ LET call == sttCalls[i]
           r == transcribe(primary, secondary)
           out == processTranscriptionResume(call, r.outcome)
       IN /\ clientOut' = out
          /\ event' = [name |-> "stt.done", call |-> call, primary |-> primary,
                       secondary |-> IF r.invoked[Len(r.invoked)] = "elevenlabs"
                                     THEN Some(secondary) ELSE Null,
                       result |-> r]
          /\ hist' = [hist EXCEPT
                        !.end = IF @.phase = "pending"
                                THEN [phase |-> "done", answers |-> @.answers + Len(out),
                                      connected |-> @.connected /\ clientWs = "OPEN"]
                                ELSE @]
    /\ sttCalls' = SubSeq(sttCalls, 1, i - 1) \o SubSeq(sttCalls, i + 1, Len(sttCalls))
    /\ transcriptionState' = resetTranscriptionState
    /\ openaiOut' = <<>> /\ elOut' = <<>>
    /\ UNCHANGED <<env, hrtime, now, clientWs, openaiWs, openaiConnected, isReady, isResponsePending,
                   currentResponseId, textBuffer, latencyMetrics, elSockets, elevenLabsWs,
                   elevenLabsConnected, timers>>


\* -------------------------------------------- conversational upstream events
TextDeltaTypes ==
    {"response.text.delta", "response.audio_transcript.delta", "response.output_text.delta"}

TextDoneTypes ==
    {"response.text.done", "response.audio_transcript.done", "response.output_text.done"}

NativeAudioTypes == {"response.audio.delta", "response.audio.done"}

PlainTypes ==
    {"session.created", "session.updated", "error", "input_audio_buffer.speech_stopped",
     "response.done", "conversation.item.input_audio_transcription.completed",
     "rate_limits.updated"}
    \cup TextDoneTypes \cup NativeAudioTypes

Upstream(type, delta, rid, parses) ==
    [type |-> type, delta |-> delta, text |-> Null, response_id |-> rid, parses |-> parses]

\* what the conversational upstream may put on the socket; session.created
\* is the first event of a connection and is sent once
OpenaiEvents ==
    {Upstream(t, Null, Null, TRUE) : t \in PlainTypes}
    \cup {Upstream(t, d, r, TRUE) :
            t \in TextDeltaTypes, d \in {Null, Some("Hi")}, r \in {Null, Some("r1"), Some("r2")}}
    \cup {[Upstream("response.text.delta", Null, Null, TRUE) EXCEPT !.text = Some("Yo")]}
    \cup {Upstream("", Null, Null, FALSE)}

\* openaiWs.send(x): only an OPEN socket transmits; a closing or closed one
\* drops the frame
OpenaiSend(msgs) == IF openaiWs = "OPEN" THEN msgs ELSE <<>>

ClientSendNoUpdated(msgs) ==
    IF clientWs = "OPEN" THEN SelectSeq(msgs, LAMBDA x : x.type # "session.updated") ELSE <<>>

ClientSend(msgs) == IF clientWs = "OPEN" THEN msgs ELSE <<>>

RelayMsg(type) == [origin |-> "relay", id |-> 0, type |-> type, json |-> TRUE]

\* what openaiWs.on('open') sends
openSendsUpdate == <<RelayMsg("session.update")>>

openSends == <<>>

OpenaiWsOnOpen ==
    /\ openaiWs = "CONNECTING"
    /\ openaiWs' = "OPEN"
    /\ openaiConnected' = TRUE
    /\ openaiOut' = openSends
    /\ event' = [name |-> "openai.open"]
    /\ clientOut' = <<>> /\ elOut' = <<>>
    /\ hist' = [hist EXCEPT !.updateSent = @ \/ openSends # <<>>]
    /\ UNCHANGED <<env, hrtime, now, clientWs, isReady, isResponsePending, currentResponseId,
                   textBuffer, transcriptionState, sttCalls, latencyMetrics, elSockets,
                   elevenLabsWs, elevenLabsConnected, timers>>

\* the session.created branch: the ready flag and the configuration it sends
sessionCreatedNoUpdate == [ready |-> TRUE, sends |-> <<>>]

sessionCreatedTwice ==
    [ready |-> TRUE, sends |-> <<RelayMsg("session.update"), RelayMsg("session.update")>>]

sessionCreated == [ready |-> TRUE, sends |-> <<RelayMsg("session.update")>>]

\* the speech_stopped branch: the pending flag and the request it sends
speechStoppedNoDedup ==
    [pending |-> TRUE, sends |-> <<RelayMsg("response.create")>>]

speechStopped ==
    IF isResponsePending
    THEN [pending |-> isResponsePending, sends |-> <<>>]
    ELSE [pending |-> TRUE, sends |-> <<RelayMsg("response.create")>>]

\* sendTextToElevenLabs(text): buffered, or sent on the current socket
sendTextToElevenLabs(text) ==
    IF ~elevenLabsConnected \/ elSockets[elevenLabsWs] # "OPEN"
    THEN [buffer |-> Append(textBuffer, text), sends |-> <<>>]
    ELSE [buffer |-> textBuffer, sends |-> <<[socket |-> elevenLabsWs, text |-> text]>>]

\* flushElevenLabs(): the end-of-text marker
flushElevenLabs ==
    IF elevenLabsConnected /\ elSockets[elevenLabsWs] = "OPEN"
    THEN <<[socket |-> elevenLabsWs, text |-> ""]>>
    ELSE <<>>

Raw(m) == [type |-> m.type, raw |-> TRUE]

\* the text delta branch: what goes to the client for an intercepted event
textDeltaForwardAndRaw(m, rid, delta) ==
    <<[type |-> "response.text.delta", raw |-> FALSE, response_id |-> rid, delta |-> delta],
      Raw(m)>>

textDeltaForward(m, rid, delta) ==
    <<[type |-> "response.text.delta", raw |-> FALSE, response_id |-> rid, delta |-> delta]>>

\* resetLatencyTracking(): the stamps cleared, both first-delta flags set
resetLatencyTrackingFlagsOnly(lm) ==
    [lm EXCEPT !.isFirstTextDelta = TRUE, !.isFirstAudioDelta = TRUE]

resetLatencyTracking(lm) ==
    [lm EXCEPT !.t1SpeechStopped = Null, !.t2FirstTextDelta = Null,
               !.t3FirstAudioDelta = Null, !.isFirstTextDelta = TRUE,
               !.isFirstAudioDelta = TRUE]

OpenaiWsOnMessage(m) ==
    /\ openaiWs \in {"OPEN", "CLOSING"}
    /\ m.type = "session.created" => ~hist.createdSeen /\ CanConnect
    /\ LET created == m.parses /\ m.type = "session.created"
           stopped == m.parses /\ m.type = "input_audio_buffer.speech_stopped"
           done == m.parses /\ m.type = "response.done"
           isDelta == m.parses /\ m.type \in TextDeltaTypes
           textDelta == IF isDelta THEN OrElse(OrElse(m.delta, m.text), Some("")) ELSE Some("")
           hasText == isDelta /\ textDelta # Some("")
           rid == IF isDelta THEN OrElse(m.response_id, currentResponseId) ELSE currentResponseId
           ss == IF stopped THEN speechStopped ELSE [pending |-> isResponsePending, sends |-> <<>>]
           tts == IF hasText THEN sendTextToElevenLabs(textDelta[1])
                  ELSE [buffer |-> textBuffer, sends |-> <<>>]
           flush == IF m.parses /\ m.type \in TextDoneTypes \cup {"response.done"}
                    THEN flushElevenLabs ELSE <<>>
           conn == IF created THEN connectToElevenLabs
                   ELSE [sockets |-> elSockets, cur |-> elevenLabsWs]
           update == IF created THEN OpenaiSend(sessionCreated.sends) ELSE <<>>
           creates == OpenaiSend(ss.sends)
           lm1 == IF stopped
                  THEN [resetLatencyTracking(latencyMetrics) EXCEPT
                          !.t1SpeechStopped = Some(hrtime)]
                  ELSE latencyMetrics
           lm2 == IF hasText /\ lm1.isFirstTextDelta
                  THEN [lm1 EXCEPT !.t2FirstTextDelta = Some(hrtime), !.isFirstTextDelta = FALSE]
                  ELSE lm1
           sanitized == IF created THEN <<[type |-> "session.created", raw |-> FALSE]>>
                        ELSE IF m.parses /\ m.type = "session.updated"
                        THEN <<[type |-> "session.updated", raw |-> FALSE]>>
                        ELSE <<>>
           forwarded == IF ~m.parses THEN <<>>
                        ELSE IF isDelta
                        THEN textDeltaForward(m, rid, textDelta[1])
                        ELSE IF m.type \in NativeAudioTypes THEN <<>>
                        ELSE <<Raw(m)>>
           out == ClientSend(sanitized \o forwarded)
           got(type) == \E k \in 1..Len(out) : out[k].type = type
       IN /\ hasText /\ tts.sends = <<>> => Len(textBuffer) < MaxTextBuffer
          /\ isReady' = IF created THEN sessionCreated.ready ELSE isReady
          /\ isResponsePending' = IF done THEN FALSE ELSE ss.pending
          /\ currentResponseId' = rid
          /\ textBuffer' = tts.buffer
          /\ latencyMetrics' = lm2
          /\ elSockets' = conn.sockets
          /\ elevenLabsWs' = conn.cur
          /\ clientOut' = out
          /\ openaiOut' = update \o creates
          /\ elOut' = tts.sends \o flush
          /\ event' = [name |-> "openai.message", msg |-> m, wasPending |-> isResponsePending]
          /\ hist' = [hist EXCEPT
                        !.createdSeen = @ \/ created,
                        !.updateSent = @ \/ update # <<>>,
                        !.updatedSeen = @ \/ (m.parses /\ m.type = "session.updated"),
                        !.confirmed = @ \/ (m.parses /\ m.type = "session.updated" /\ hist.createdSeen),
                        !.acks = [created |-> @.created \/ got("session.created"),
                                  updated |-> @.updated \/ (got("session.updated") /\ @.created)],
                        !.inFlight = IF done THEN (IF @ + Len(creates) > 0 THEN @ + Len(creates) - 1 ELSE 0)
                                     ELSE @ + Len(creates),
                        !.stops = IF done THEN 0
                                  ELSE IF stopped /\ @ < 3 THEN @ + 1 ELSE @,
                        !.creates = IF done THEN 0
                                    ELSE IF @ < 3 THEN @ + Len(ss.sends) ELSE @,
                        !.tts = IF stopped THEN [starts |-> 0, unmarked |-> FALSE] ELSE @,
                        !.reports = IF stopped THEN 0 ELSE @,
                        !.spoken = @ \cup {<<tts.sends[k].socket, rid>> : k \in 1..Len(tts.sends)}]
    /\ UNCHANGED <<env, hrtime, now, clientWs, openaiWs, openaiConnected, transcriptionState, sttCalls,
                   elevenLabsConnected, timers>>

\* the client socket as the 'error' handler leaves it
openaiErrorClosesClient == IF clientWs = "OPEN" THEN "CLOSING" ELSE clientWs

openaiErrorClient == clientWs

\* A string is the sequence of its words.  The two keys are of the shapes the
\* upstream services issue: sk- or xi_ followed by twenty or more characters.
OpenaiKey == "sk-proj-0123456789abcdefghij"

ElevenlabsKey == "xi_0123456789abcdefghijklmn"

BearerWords == {"Bearer", "bearer", "BEARER"}

KeyedFields == {"\"api_key\":", "\"xi_api_key\":", "\"authorization\":"}

\* redactSecrets(str): the word after Bearer, a key, and the value of a keyed
\* field are replaced
redactSecrets(str) ==
    [i \in 1..Len(str) |->
        IF i > 1 /\ str[i - 1] \in BearerWords \cup KeyedFields THEN "[REDACTED]"
        ELSE IF str[i] = OpenaiKey THEN "sk-[REDACTED]"
        ELSE IF str[i] = ElevenlabsKey THEN "xi_[REDACTED]"
        ELSE str[i]]

\* error.message of an 'error' the conversational socket emits: the handshake
\* was refused, or the failure quotes the request it was making
SocketErrors ==
    {<<"Unexpected server response: 401">>,
     <<"Invalid header value", "Authorization:", "Bearer", OpenaiKey>>}

\* 'error' on the conversational socket; ws has the socket closing by then
OpenaiWsOnError ==
    /\ openaiWs \in {"CONNECTING", "OPEN"}
    /\ openaiWs' = "CLOSING"
    /\ clientWs' = openaiErrorClient
    /\ \E error \in SocketErrors :
          /\ clientOut' = ClientSend(<<[type |-> "relay.error", raw |-> FALSE,
                                        details |-> error]>>)
          /\ event' = [name |-> "openai.error", message |-> error]
    /\ openaiOut' = <<>> /\ elOut' = <<>>
    /\ UNCHANGED <<env, now, hrtime, openaiConnected, isReady, isResponsePending,
                   currentResponseId, textBuffer, transcriptionState, sttCalls, latencyMetrics,
                   elSockets, elevenLabsWs, elevenLabsConnected, timers, hist>>

\* 'close' on the conversational socket: both registered handlers run
OpenaiWsOnClose ==
    /\ openaiWs \in {"OPEN", "CLOSING"}
    /\ openaiWs' = "CLOSED"
    /\ openaiConnected' = FALSE
    /\ isReady' = FALSE
    /\ clientWs' = IF clientWs = "OPEN" THEN "CLOSING" ELSE clientWs
    /\ event' = [name |-> "openai.close"]
    /\ clientOut' = <<>> /\ openaiOut' = <<>> /\ elOut' = <<>>
    /\ UNCHANGED <<env, hrtime, now, isResponsePending, currentResponseId, textBuffer,
                   transcriptionState, sttCalls, latencyMetrics, elSockets, elevenLabsWs,
                   elevenLabsConnected, timers, hist>>


\* ------------------------------------------------- synthesis upstream events
ElMessages ==
    {[parses |-> TRUE, audio |-> a, isFinal |-> f] : a \in BOOLEAN, f \in BOOLEAN}
    \cup {[parses |-> FALSE, audio |-> FALSE, isFinal |-> FALSE]}

\* parseFloat((ms).toFixed(2)): the nearest hundredth of a millisecond, the
\* sign kept apart
toFixed2Exact(d) == d

toFixed2(d) ==
    IF d >= 0 THEN ((d + HrQuantum \div 2) \div HrQuantum) * HrQuantum
    ELSE 0 - (((0 - d + HrQuantum \div 2) \div HrQuantum) * HrQuantum)

\* logLatencyReport(): the measurement it appends, if all three stamps are set
logLatencyReport(lm) ==
    IF lm.t1SpeechStopped # Null /\ lm.t2FirstTextDelta # Null /\ lm.t3FirstAudioDelta # Null
    THEN <<[t1ToT2 |-> toFixed2(lm.t2FirstTextDelta[1] - lm.t1SpeechStopped[1]),
            t2ToT3 |-> toFixed2(lm.t3FirstAudioDelta[1] - lm.t2FirstTextDelta[1]),
            total |-> toFixed2(lm.t3FirstAudioDelta[1] - lm.t1SpeechStopped[1])]>>
    ELSE <<>>

\* 'open' of synthesis socket i; the init frame goes out on the session's
\* current socket, which throws while that one is still connecting
ElOnOpen(i) ==
    /\ i \in 1..Len(elSockets)
    /\ elSockets[i] = "CONNECTING"
    /\ elSockets' = [elSockets EXCEPT ![i] = "OPEN"]
    /\ elevenLabsConnected' = TRUE
    /\ LET cur == IF elevenLabsWs = i THEN "OPEN" ELSE elSockets[elevenLabsWs]
       IN /\ elOut' = IF cur = "OPEN" THEN <<[socket |-> elevenLabsWs, text |-> " "]>> ELSE <<>>
          /\ event' = [name |-> "el.open", socket |-> i, threw |-> cur = "CONNECTING"]
    /\ clientOut' = <<>> /\ openaiOut' = <<>>
    /\ UNCHANGED <<env, hrtime, now, clientWs, openaiWs, openaiConnected, isReady, isResponsePending,
                   currentResponseId, textBuffer, transcriptionState, sttCalls, latencyMetrics,
                   elevenLabsWs, timers, hist>>

\* the turns a message of synthesis socket i may belong to: those whose text
\* was sent on that socket (as a set of at most one response id; empty when
\* the socket was sent no text)
Owners(i) ==
    IF \E p \in hist.spoken : p[1] = i
    THEN {{p[2]} : p \in {q \in hist.spoken : q[1] = i}}
    ELSE {{}}

ElOnMessage(i, msg) ==
    /\ i \in 1..Len(elSockets)
    /\ elSockets[i] \in {"OPEN", "CLOSING"}
    /\ LET audio == msg.parses /\ msg.audio
           first == audio /\ latencyMetrics.isFirstAudioDelta
           lm1 == IF first
                  THEN [latencyMetrics EXCEPT !.t3FirstAudioDelta = Some(hrtime),
                                              !.isFirstAudioDelta = FALSE]
                  ELSE latencyMetrics
           report == IF first THEN logLatencyReport(lm1) ELSE <<>>
           start == IF first THEN <<[type |-> "tts.start", raw |-> FALSE,
                                     response_id |-> currentResponseId]>> ELSE <<>>
           delta == IF audio \/ ~msg.parses
                    THEN <<[type |-> "response.audio.delta", raw |-> FALSE,
                            response_id |-> currentResponseId]>> ELSE <<>>
           final == IF msg.parses /\ msg.isFinal
                    THEN <<[type |-> "response.audio.done", raw |-> FALSE,
                            response_id |-> currentResponseId]>> ELSE <<>>
           out == ClientSend(start \o delta \o final)
           starts == Len(SelectSeq(out, LAMBDA x : x.type = "tts.start"))
           bare == \E k \in 1..Len(out) :
                      /\ out[k].type = "response.audio.delta"
                      /\ \A j \in 1..(k - 1) : out[j].type # "tts.start"
       IN /\ report # <<>> => Len(latencyMetrics.measurements) < MaxMeasurements
          /\ latencyMetrics' = [lm1 EXCEPT !.measurements = @ \o report]
          /\ clientOut' = out
          /\ \E owner \in Owners(i) :
                event' = [name |-> "el.message", socket |-> i, msg |-> msg, owner |-> owner]
          /\ hist' = [hist EXCEPT
                        !.tts = [starts |-> IF @.starts + starts < 2 THEN @.starts + starts ELSE 2,
                                 unmarked |-> @.unmarked \/ (bare /\ @.starts = 0)],
                        !.reports = @ + Len(report)]
    /\ openaiOut' = <<>> /\ elOut' = <<>>
    /\ UNCHANGED <<env, hrtime, now, clientWs, openaiWs, openaiConnected, isReady, isResponsePending,
                   currentResponseId, textBuffer, transcriptionState, sttCalls, elSockets,
                   elevenLabsWs, elevenLabsConnected, timers>>

\* 'error' of synthesis socket i
ElOnError(i) ==
    /\ i \in 1..Len(elSockets)
    /\ elSockets[i] \in {"CONNECTING", "OPEN"}
    /\ elSockets' = [elSockets EXCEPT ![i] = "CLOSING"]
    /\ elevenLabsConnected' = FALSE
    /\ event' = [name |-> "el.error", socket |-> i]
    /\ clientOut' = <<>> /\ openaiOut' = <<>> /\ elOut' = <<>>
    /\ UNCHANGED <<env, hrtime, now, clientWs, openaiWs, openaiConnected, isReady, isResponsePending,
                   currentResponseId, textBuffer, transcriptionState, sttCalls, latencyMetrics,
                   elevenLabsWs, timers, hist>>

\* 'close' of synthesis socket i
ElOnClose(i) ==
    /\ i \in 1..Len(elSockets)
    /\ elSockets[i] \in {"OPEN", "CLOSING"}
    /\ elSockets' = [elSockets EXCEPT ![i] = "CLOSED"]
    /\ elevenLabsConnected' = FALSE
    /\ event' = [name |-> "el.close", socket |-> i]
    /\ clientOut' = <<>> /\ openaiOut' = <<>> /\ elOut' = <<>>
    /\ UNCHANGED <<env, hrtime, now, clientWs, openaiWs, openaiConnected, isReady, isResponsePending,
                   currentResponseId, textBuffer, transcriptionState, sttCalls, latencyMetrics,
                   elevenLabsWs, timers, hist>>

\* the reconnect timer of tts.stop fires
ReconnectTimer ==
    /\ timers > 0
    /\ CanConnect
    /\ timers' = timers - 1
    /\ elSockets' = connectToElevenLabs.sockets
    /\ elevenLabsWs' = connectToElevenLabs.cur
    /\ event' = [name |-> "timer"]
    /\ clientOut' = <<>> /\ openaiOut' = <<>> /\ elOut' = <<>>
    /\ UNCHANGED <<env, hrtime, now, clientWs, openaiWs, openaiConnected, isReady, isResponsePending,
                   currentResponseId, textBuffer, transcriptionState, sttCalls, latencyMetrics,
                   elevenLabsConnected, hist>>

\* ========================================================== specification
\* the whole session: every handler, every input
Next ==
    \/ Tick
    \/ HrTick
    \/ \E f \in ClientFrames : ClientWsOnMessage(f)
    \/ ClientWsOnClose
    \/ \E i \in 1..Len(sttCalls), p \in ProviderResponses, q \in ProviderResponses :
          TranscribeDone(i, p, q)
    \/ OpenaiWsOnOpen
    \/ \E m \in OpenaiEvents : OpenaiWsOnMessage(m)
    \/ OpenaiWsOnError
    \/ OpenaiWsOnClose
    \/ \E i \in 1..Len(elSockets) : ElOnOpen(i)
    \/ \E i \in 1..Len(elSockets), msg \in ElMessages : ElOnMessage(i, msg)
    \/ \E i \in 1..Len(elSockets) : ElOnError(i)
    \/ \E i \in 1..Len(elSockets) : ElOnClose(i)
    \/ ReconnectTimer

Spec == Init /\ [][Next]_vars

\* The session's components only meet in the socket states, so each group of
\* properties is checked on the session driven by the inputs that matter to
\* it: the same handlers, a narrower environment.

\* -- the conversation link: handshake, relay and turn triggering, under the
\*    default configuration
DefaultEnv ==
    [TRANSCRIPTION_ENABLED |-> FALSE, STT_FAILOVER_ON_429 |-> TRUE,
     STT_FAILOVER_ON_5XX |-> FALSE, STT_FORCE_429_TEST |-> FALSE]

RelayFrames ==
    {f \in ClientFrames : ~f.json \/ f.type \in OtherClientTypes \cup {"tts.stop", "audio.end"}}

RelayEvents ==
    {m \in OpenaiEvents :
        ~m.parses \/ m.type \in {"session.created", "session.updated", "error",
                                 "input_audio_buffer.speech_stopped", "response.done",
                                 "rate_limits.updated"}}

InitRelay == Init /\ env = DefaultEnv

NextRelay ==
    \/ \E f \in RelayFrames : ClientWsOnMessage(f)
    \/ ClientWsOnClose
    \/ OpenaiWsOnOpen
    \/ \E m \in RelayEvents : OpenaiWsOnMessage(m)
    \/ OpenaiWsOnError
    \/ OpenaiWsOnClose

SpecRelay == InitRelay /\ [][NextRelay]_vars

\* -- the transcription pipeline, with transcription enabled and disabled
\*    and the failover flags at their defaults
AudioFrames == {f \in ClientFrames : f.json /\ f.type \in ControlTypes}

InitAudio ==
    /\ Init
    /\ \E enabled \in BOOLEAN : env = [DefaultEnv EXCEPT !.TRANSCRIPTION_ENABLED = enabled]

\* what the secondary endpoint answers here: a transcript, a server error, or nothing
FallbackResponses ==
    {r \in ProviderResponses : r.kind = "network" \/ r.status = 500 \/ r.text # Null}

ProviderReturns ==
    \E i \in 1..Len(sttCalls), p \in ProviderResponses, q \in FallbackResponses :
        TranscribeDone(i, p, q)

NextAudio ==
    \/ Tick
    \/ \E f \in AudioFrames : ClientWsOnMessage(f)
    \/ ClientWsOnClose
    \/ ProviderReturns
    \/ OpenaiWsOnOpen
    \/ OpenaiWsOnError
    \/ OpenaiWsOnClose

SpecAudio == InitAudio /\ [][NextAudio]_vars

\* -- recordings that get as far as audio.end: well-formed frames only, and
\*    transcription enabled
SttFrames ==
    {f \in AudioFrames :
        /\ f.type = "audio.start" => f.start = NoStart
        /\ f.type = "audio.chunk" => f.data.kind = "base64"
        /\ f.type # "tts.stop"}

InitAnswer == Init /\ env = [DefaultEnv EXCEPT !.TRANSCRIPTION_ENABLED = TRUE]

NextAnswer ==
    \/ Tick
    \/ \E f \in SttFrames : ClientWsOnMessage(f)
    \/ ClientWsOnClose
    \/ ProviderReturns
    \/ OpenaiWsOnOpen
    \/ OpenaiWsOnClose

\* the provider call returns: a suspended processTranscription resumes
FairSpecAnswer == InitAnswer /\ [][NextAnswer]_vars /\ WF_vars(ProviderReturns)

\* -- the STT orchestrator under every setting of its three flags
InitStt == Init /\ env.TRANSCRIPTION_ENABLED

NextStt ==
    \/ \E f \in SttFrames : ClientWsOnMessage(f)
    \/ ClientWsOnClose
    \/ \E i \in 1..Len(sttCalls), p \in ProviderResponses, q \in ProviderResponses :
          TranscribeDone(i, p, q)

SpecStt == InitStt /\ [][NextStt]_vars

\* -- the latency stamps of a turn: speech_stopped, text deltas and synthesis
\*    audio against the high-resolution clock
LatencyEvents ==
    {m \in OpenaiEvents :
        /\ m.parses
        /\ \/ m.type \in {"session.created", "input_audio_buffer.speech_stopped"}
           \/ m.type = "response.text.delta" /\ m.response_id = Null}

InitTurn == Init /\ env = DefaultEnv

NextLatency ==
    \/ HrTick
    \/ OpenaiWsOnOpen
    \/ \E m \in LatencyEvents : OpenaiWsOnMessage(m)
    \/ \E i \in 1..Len(elSockets) : ElOnOpen(i)
    \/ \E i \in 1..Len(elSockets), msg \in ElMessages : ElOnMessage(i, msg)

SpecLatency == InitTurn /\ [][NextLatency]_vars

\* -- the synthesis link: every text delta, against the synthesis socket
\*    opening, failing and closing
SynthEvents ==
    {m \in OpenaiEvents :
        m.parses /\ m.type \in TextDeltaTypes \cup {"session.created", "response.done"}}

NextSynth ==
    \/ OpenaiWsOnOpen
    \/ \E m \in SynthEvents : OpenaiWsOnMessage(m)
    \/ \E i \in 1..Len(elSockets) : ElOnOpen(i)
    \/ \E i \in 1..Len(elSockets), msg \in ElMessages : ElOnMessage(i, msg)
    \/ \E i \in 1..Len(elSockets) : ElOnError(i)
    \/ \E i \in 1..Len(elSockets) : ElOnClose(i)
    \/ ClientWsOnClose

SpecSynth == InitTurn /\ [][NextSynth]_vars

\* -- control frames on a session whose conversational link comes up:
\*    transcription enabled, every audio.* and tts.stop payload
ControlEvents == {m \in OpenaiEvents : m.parses /\ m.type = "session.created"}

NextControl ==
    \/ \E f \in AudioFrames : ClientWsOnMessage(f)
    \/ OpenaiWsOnOpen
    \/ \E m \in ControlEvents : OpenaiWsOnMessage(m)
    \/ OpenaiWsOnClose

SpecControl == InitAnswer /\ [][NextControl]_vars

\* -- cancellation: tts.stop against the synthesis socket opening and closing,
\*    and the reconnect timer
StopFrames == {f \in ClientFrames : f.json /\ f.type = "tts.stop"}

NextStop ==
    \/ \E f \in StopFrames : ClientWsOnMessage(f)
    \/ ClientWsOnClose
    \/ OpenaiWsOnOpen
    \/ \E m \in ControlEvents : OpenaiWsOnMessage(m)
    \/ \E i \in 1..Len(elSockets) : ElOnOpen(i)
    \/ \E i \in 1..Len(elSockets), msg \in ElMessages : ElOnMessage(i, msg)
    \/ \E i \in 1..Len(elSockets) : ElOnError(i)
    \/ \E i \in 1..Len(elSockets) : ElOnClose(i)
    \/ ReconnectTimer

\* a timer that was set fires
FairSpecStop == InitTurn /\ [][NextStop]_vars /\ WF_vars(ReconnectTimer)

\* -- the synthesis link across a cancellation: text and completion events,
\*    tts.stop, the reconnect timer and the events of every synthesis socket
LinkEvents ==
    {m \in OpenaiEvents :
        /\ m.parses
        /\ \/ m.type \in {"session.created", "response.done", "response.text.done"}
           \/ m.type = "response.text.delta" /\ m.delta # Null /\ m.response_id = Some("r1")}

NextLink ==
    \/ \E f \in StopFrames : ClientWsOnMessage(f)
    \/ ClientWsOnClose
    \/ OpenaiWsOnOpen
    \/ \E m \in LinkEvents : OpenaiWsOnMessage(m)
    \/ \E i \in 1..Len(elSockets) : ElOnOpen(i)
    \/ \E i \in 1..Len(elSockets), msg \in ElMessages : ElOnMessage(i, msg)
    \/ \E i \in 1..Len(elSockets) : ElOnError(i)
    \/ \E i \in 1..Len(elSockets) : ElOnClose(i)
    \/ ReconnectTimer

SpecLink == InitTurn /\ [][NextLink]_vars

TypeOK ==
    /\ clientWs \in {"OPEN", "CLOSING", "CLOSED"}
    /\ openaiWs \in {"CONNECTING", "OPEN", "CLOSING", "CLOSED"}
    /\ transcriptionState.status \in {"idle", "recording", "processing"}
    /\ elevenLabsWs \in 0..Len(elSockets)


\* ================================================================ properties
ClientOrigin(k) == openaiOut[k].origin = "client"

IsClientFrame(type) == event.name = "client.message" /\ event.frame.json /\ event.frame.type = type

IsUpstream(type) == event.name = "openai.message" /\ event.msg.parses /\ event.msg.type = type

TranscriptTypes == {"transcript.error", "transcript.final"}

\* C1: Auth-First guard.  A client frame that is not audio.start, audio.chunk,
\* audio.end or tts.stop (non-JSON frames included) and arrived while isReady
\* was false is never sent to the conversational upstream, neither by the
\* handler that received it nor by any later handler.
C1_AuthFirstGuard ==
    \A k \in 1..Len(openaiOut) : ClientOrigin(k) => openaiOut[k].id \notin hist.blocked

\* a frame was dropped at the gate and a later frame is relayed
C1_Witness ==
    /\ hist.blocked # {}
    /\ \E k \in 1..Len(openaiOut) : ClientOrigin(k)

\* C2: create-then-configure.  The relay sends session.update only once
\* session.created has been received, and the 'open' handler sends nothing.
C2_CreateThenConfigure ==
    /\ \A k \in 1..Len(openaiOut) : openaiOut[k].type = "session.update" /\ ~ClientOrigin(k)
                                        => hist.createdSeen
    /\ event.name = "openai.open" => openaiOut = <<>>
    /\ hist.updateSent => hist.createdSeen

\* the configuration goes out in the session.created handler
C2_Witness ==
    /\ IsUpstream("session.created")
    /\ openaiOut = <<RelayMsg("session.update")>>

\* C3: no client-originated frame reaches the conversational upstream before
\* session.created was processed and the relay's session.update was sent.
C3_ConfiguredBeforeRelay ==
    \A k \in 1..Len(openaiOut) : ClientOrigin(k) => hist.createdSeen /\ hist.updateSent

\* a client frame is relayed on a configured session
C3_Witness ==
    /\ hist.updateSent
    /\ event.name = "client.message"
    /\ \E k \in 1..Len(openaiOut) : ClientOrigin(k)

Creates == {k \in 1..Len(openaiOut) : openaiOut[k] = RelayMsg("response.create")}

\* C4: turn-trigger deduplication.  speech_stopped sends response.create only
\* when isResponsePending was false and leaves the flag true; a run of one or
\* more speech_stopped events since the last response.done has produced
\* exactly one response.create; response.done leaves the flag false.
C4_TurnTriggerDedup ==
    /\ IsUpstream("input_audio_buffer.speech_stopped") =>
          /\ isResponsePending
          /\ event.wasPending => Creates = {}
          /\ ~event.wasPending /\ openaiWs = "OPEN" => Cardinality(Creates) = 1
    /\ ~IsUpstream("input_audio_buffer.speech_stopped") => Creates = {}
    /\ IsUpstream("response.done") => ~isResponsePending
    /\ hist.stops >= 1 => hist.creates = 1

\* the second speech_stopped of a run: skipped
C4_Witness ==
    /\ IsUpstream("input_audio_buffer.speech_stopped")
    /\ event.wasPending
    /\ hist.stops >= 2
    /\ hist.creates = 1

\* C5: at most one response.create that reached the conversational upstream is
\* unanswered by a response.done.
C5_AtMostOneInFlight == hist.inFlight <= 1

\* C6: byte cap.  totalBytes is the sum of the buffered chunks' lengths and at
\* most MAX_AUDIO_BYTES; a chunk within the caps is appended with its decoded
\* length; a chunk that would push the total over the cap is not appended,
\* resets the pipeline to idle with empty buffers and is answered by
\* transcript.error audio_too_large.
C6_ChunkStep ==
    LET f == event'.frame
        len == Base64DecodedLen(f.data.chars)
        recording == transcriptionState.status = "recording" /\ f.data.kind = "base64"
    IN event'.name = "client.message" /\ f.type = "audio.chunk" /\ recording =>
          /\ transcriptionState.totalBytes + len > MAX_AUDIO_BYTES =>
                /\ transcriptionState' = IdleState
                /\ clientWs = "OPEN" =>
                      /\ Len(clientOut') = 1
                      /\ clientOut'[1].type = "transcript.error"
                      /\ clientOut'[1].code = "audio_too_large"
          /\ transcriptionState.totalBytes + len <= MAX_AUDIO_BYTES /\ ~TooLong(transcriptionState) =>
                /\ transcriptionState'.audioChunks = Append(transcriptionState.audioChunks, len)
                /\ transcriptionState'.totalBytes = transcriptionState.totalBytes + len
                /\ clientOut' = <<>>

C6_ByteCap ==
    /\ [](/\ transcriptionState.totalBytes = SumSeq(transcriptionState.audioChunks)
          /\ transcriptionState.totalBytes <= MAX_AUDIO_BYTES)
    /\ [][C6_ChunkStep]_vars

\* a chunk over the cap was refused after chunks had been buffered
C6_Witness ==
    /\ IsClientFrame("audio.chunk")
    /\ Len(clientOut) = 1
    /\ clientOut[1].code = "audio_too_large"
    /\ transcriptionState = IdleState

\* C7: audio.start is rejected with invalid_state while the pipeline is not
\* idle and with disabled when transcription is off; the pipeline state is
\* left as it was and no audio.started is sent.
C7_StartStep ==
    LET f == event'.frame
        rejected == ~TRANSCRIPTION_ENABLED \/ transcriptionState.status # "idle"
    IN event'.name = "client.message" /\ f.type = "audio.start" /\ rejected =>
          /\ transcriptionState' = transcriptionState
          /\ sttCalls' = sttCalls
          /\ \A k \in 1..Len(clientOut') : clientOut'[k].type = "transcript.error"
          /\ clientWs = "OPEN" =>
                /\ Len(clientOut') = 1
                /\ clientOut'[1].code = IF TRANSCRIPTION_ENABLED THEN "invalid_state" ELSE "disabled"

C7_StartRejected == [][C7_StartStep]_vars

\* audio.start refused while a recording with buffered audio is in progress
C7_Witness ==
    /\ IsClientFrame("audio.start")
    /\ Len(clientOut) = 1
    /\ clientOut[1].type = "transcript.error"
    /\ clientOut[1].code = "invalid_state"
    /\ transcriptionState.status = "recording"
    /\ Len(transcriptionState.audioChunks) > 0

\* C8: an audio.end accepted while recording gets exactly one answer, a
\* transcript.final or a transcript.error, once the provider call returns,
\* provided the client stays connected; never more than one; the pipeline is
\* idle afterwards and takes a new audio.start.
C8_AnswerStep ==
    /\ hist'.end.phase = "done" /\ hist'.end # hist.end =>
          /\ transcriptionState' = IdleState
          /\ \A k \in 1..Len(clientOut') : clientOut'[k].type \in TranscriptTypes
    /\ event'.name = "client.message" /\ event'.frame.type = "audio.start"
         /\ TRANSCRIPTION_ENABLED /\ transcriptionState.status = "idle" =>
          transcriptionState'.status = "recording"

C8_ExactlyOneAnswer ==
    /\ [](/\ hist.end.answers <= 1
          /\ hist.end.phase = "done" /\ hist.end.connected => hist.end.answers = 1
          /\ hist.end.phase = "pending" => hist.end.answers = 0 /\ Len(sttCalls) = 1)
    /\ [][C8_AnswerStep]_vars
    /\ (hist.end.phase = "pending" ~> hist.end.phase = "done")

\* the provider call returned and the connected client got its transcript
C8_Witness ==
    /\ event.name = "stt.done"
    /\ hist.end.phase = "done" /\ hist.end.connected
    /\ Len(clientOut) = 1
    /\ clientOut[1].type = "transcript.final"

\* C9: once the client has disconnected the pipeline is idle with no buffered
\* chunk and totalBytes 0, and no transcript.error or transcript.final is sent
\* any more, also when a provider call in flight at the disconnect ends later.
C9_DisconnectCleanup ==
    clientWs = "CLOSED" =>
        /\ transcriptionState.status = "idle"
        /\ transcriptionState.audioChunks = <<>>
        /\ transcriptionState.totalBytes = 0
        /\ \A k \in 1..Len(clientOut) : clientOut[k].type \notin TranscriptTypes

\* the client left in the middle of a recording with three chunks buffered
C9_Witness ==
    /\ event.name = "client.close"
    /\ event.status = "recording"
    /\ event.chunks = 3
    /\ transcriptionState = IdleState

\* C10: when the primary provider was asked and failed with 401 or 403, the
\* secondary is not invoked and transcribe throws the primary's error object
\* as it is, whatever the failover flags.
C10_NoFailoverOnAuth ==
    event.name = "stt.done" /\ event.result.invoked[1] = "openai"
      /\ event.primary.kind = "http" /\ event.primary.status \in {401, 403} =>
        /\ event.result.invoked = <<"openai">>
        /\ event.result.outcome = OpenaiProviderTranscribe(event.primary)
        /\ event.result.outcome.kind = "throw"
        /\ event.result.outcome.error.status = Some(event.primary.status)

\* a 401 from the primary with both failover triggers enabled
C10_Witness ==
    /\ event.name = "stt.done"
    /\ event.primary.status = 401
    /\ STT_FAILOVER_ON_429 /\ STT_FAILOVER_ON_5XX
    /\ event.result.invoked = <<"openai">>
    /\ event.result.outcome.kind = "throw"

\* C11: with the test mode off, the secondary provider is invoked exactly when
\* the primary failed with status 429 and the 429 trigger is on, or with a
\* status in 500..599 and the 5xx trigger is on; otherwise the primary's
\* outcome is returned or thrown as it is; a returned result carries
\* failover = true and the primary's status as failoverReason exactly when
\* the secondary produced it.
C11_FailoverIff ==
    event.name = "stt.done" /\ ~env.STT_FORCE_429_TEST =>
        LET p == event.primary
            r == event.result
            failed == p.kind = "http" /\ ~(p.status >= 200 /\ p.status <= 299)
            warranted == failed /\ (\/ p.status = 429 /\ env.STT_FAILOVER_ON_429
                                    \/ p.status >= 500 /\ p.status < 600 /\ env.STT_FAILOVER_ON_5XX)
            tagged == "failover" \in DOMAIN r.outcome.value
        IN /\ r.invoked = IF warranted THEN <<"openai", "elevenlabs">> ELSE <<"openai">>
           /\ ~warranted => /\ r.outcome = OpenaiProviderTranscribe(p)
                            /\ r.outcome.kind = "return" => ~tagged
           /\ warranted /\ r.outcome.kind = "return" =>
                 /\ r.outcome.value.provider = "elevenlabs"
                 /\ tagged
                 /\ r.outcome.value.failover = TRUE
                 /\ r.outcome.value.failoverReason = <<"status", Some(p.status)>>
                 /\ r.outcome.value.text = ElevenlabsProviderTranscribe(event.secondary[1]).value.text

\* a 599 from the primary with the 5xx trigger on: the secondary's transcript
C11_Witness ==
    /\ event.name = "stt.done" /\ ~env.STT_FORCE_429_TEST
    /\ event.primary.status = 599 /\ env.STT_FAILOVER_ON_5XX
    /\ event.result.outcome.kind = "return"
    /\ event.result.outcome.value.failover = TRUE
    /\ event.result.outcome.value.text = "hello"

\* C12: when failover is warranted and the secondary fails too, transcribe
\* throws one combined error with the secondary error's status, a message
\* naming both statuses and both original errors attached; no provider is
\* invoked twice in one call.
C12_CombinedError ==
    event.name = "stt.done" =>
        LET r == event.result
            pe == OpenaiProviderTranscribe(event.primary)
        IN /\ \A i, j \in 1..Len(r.invoked) : r.invoked[i] = r.invoked[j] => i = j
           /\ r.invoked = <<"openai", "elevenlabs">> =>
                 LET fe == ElevenlabsProviderTranscribe(event.secondary[1])
                 IN fe.kind = "throw" =>
                       /\ r.outcome.kind = "throw"
                       /\ r.outcome.error.status = fe.error.status
                       /\ r.outcome.error.primaryError = Some(pe.error)
                       /\ r.outcome.error.fallbackError = Some(fe.error)
                       /\ pe.error.status = Some(event.primary.status)
                       /\ r.outcome.error.message =
                             <<"Both providers failed", pe.error.status, fe.error.status>>

\* primary 429, secondary 500: the combined error carries 429 and 500
C12_Witness ==
    /\ event.name = "stt.done"
    /\ event.result.invoked = <<"openai", "elevenlabs">>
    /\ event.result.outcome.kind = "throw"
    /\ event.result.outcome.error.status = Some(500)
    /\ event.result.outcome.error.primaryError # Null
    /\ event.result.outcome.error.primaryError[1].status = Some(429)

\* C13: in the forced-429 test mode the primary is never invoked, the
\* secondary is invoked once, and its result is returned with failover = true
\* and the simulated reason; its error, if it fails, is thrown as it is.
C13_TestMode ==
    event.name = "stt.done" /\ env.STT_FORCE_429_TEST =>
        LET r == event.result
            fe == ElevenlabsProviderTranscribe(event.secondary[1])
        IN /\ r.invoked = <<"elevenlabs">>
           /\ fe.kind = "return" =>
                 /\ r.outcome.kind = "return"
                 /\ r.outcome.value.text = fe.value.text
                 /\ r.outcome.value.provider = "elevenlabs"
                 /\ r.outcome.value.failover = TRUE
                 /\ r.outcome.value.failoverReason = <<"simulated_429">>
           /\ fe.kind = "throw" => r.outcome = fe

\* test mode, a healthy primary endpoint, and the secondary's transcript
C13_Witness ==
    /\ event.name = "stt.done" /\ env.STT_FORCE_429_TEST
    /\ event.primary.status = 200
    /\ event.result.invoked = <<"elevenlabs">>
    /\ event.result.outcome.kind = "return"
    /\ event.result.outcome.value.failoverReason = <<"simulated_429">>

\* the handler just run appended a latency measurement
Reported == Len(latencyMetrics'.measurements) > Len(latencyMetrics.measurements)

\* the stamps are kept by every handler but the speech_stopped reset
StampsKept ==
    ~(event'.name = "openai.message" /\ event'.msg.parses
        /\ event'.msg.type = "input_audio_buffer.speech_stopped") =>
        /\ latencyMetrics.t2FirstTextDelta # Null =>
              latencyMetrics'.t2FirstTextDelta = latencyMetrics.t2FirstTextDelta
        /\ latencyMetrics.t3FirstAudioDelta # Null =>
              latencyMetrics'.t3FirstAudioDelta = latencyMetrics.t3FirstAudioDelta

\* C14 as stated: the report shows the exact differences T2 - T1, T3 - T2 and
\* T3 - T1, so that the total is the sum of the two parts, and within a turn
\* a later text delta or audio fragment leaves T2 and T3 as recorded.
C14_ReportExactStep ==
    /\ StampsKept
    /\ Reported =>
          LET lm == latencyMetrics'
              m == lm.measurements[Len(lm.measurements)]
          IN /\ m.t1ToT2 = lm.t2FirstTextDelta[1] - lm.t1SpeechStopped[1]
             /\ m.t2ToT3 = lm.t3FirstAudioDelta[1] - lm.t2FirstTextDelta[1]
             /\ m.total = lm.t3FirstAudioDelta[1] - lm.t1SpeechStopped[1]
             /\ m.total = m.t1ToT2 + m.t2ToT3

C14_ReportExact == [][C14_ReportExactStep]_vars

\* C14, amended: each reported interval is the difference rounded to the
\* nearest hundredth of a millisecond, so the total is the sum of the two
\* parts up to one hundredth; within a turn a later text delta or audio
\* fragment leaves T2 and T3 as recorded.
C14_ReportRoundedStep ==
    /\ StampsKept
    /\ Reported =>
          LET lm == latencyMetrics'
              m == lm.measurements[Len(lm.measurements)]
              Near(shown, exact) ==
                  /\ shown % HrQuantum = 0
                  /\ 2 * (shown - exact) <= HrQuantum
                  /\ 2 * (exact - shown) <= HrQuantum
          IN /\ Near(m.t1ToT2, lm.t2FirstTextDelta[1] - lm.t1SpeechStopped[1])
             /\ Near(m.t2ToT3, lm.t3FirstAudioDelta[1] - lm.t2FirstTextDelta[1])
             /\ Near(m.total, lm.t3FirstAudioDelta[1] - lm.t1SpeechStopped[1])
             /\ m.total - (m.t1ToT2 + m.t2ToT3) \in {0 - HrQuantum, 0, HrQuantum}

C14_ReportRounded == [][C14_ReportRoundedStep]_vars

\* a report whose total is one hundredth more than the sum of its parts
C14_Witness ==
    /\ event.name = "el.message"
    /\ Len(latencyMetrics.measurements) = 1
    /\ latencyMetrics.measurements[1].t1ToT2 = 0
    /\ latencyMetrics.measurements[1].t2ToT3 = 0
    /\ latencyMetrics.measurements[1].total = HrQuantum
    /\ latencyMetrics.t3FirstAudioDelta[1] - latencyMetrics.t1SpeechStopped[1] = 2 * HrStep

\* C15: once the client socket has closed, every upstream socket of the
\* session, conversational or synthesis, connecting or open at that moment,
\* has been closed by the close handler: none is connecting or open.
C15_DisconnectClosesUpstreams ==
    clientWs = "CLOSED" =>
        /\ openaiWs \notin {"CONNECTING", "OPEN"}
        /\ \A i \in 1..Len(elSockets) : elSockets[i] \notin {"CONNECTING", "OPEN"}

\* C16: the text fragments buffered while the synthesis connection was not
\* open are sent to the synthesis upstream, in arrival order, by the handler
\* that runs when the connection opens, and the buffer is empty afterwards.
C16_FlushStep ==
    event'.name = "el.open" /\ event'.socket = elevenLabsWs =>
        /\ \E a \in 1..(Len(elOut') + 1) :
              /\ a + Len(textBuffer) - 1 <= Len(elOut')
              /\ \A k \in 1..Len(textBuffer) : elOut'[a + k - 1].text = textBuffer[k]
        /\ textBuffer' = <<>>

C16_BufferedTextFlushed == [][C16_FlushStep]_vars

\* C17: for an upstream event of one of the three text delta types the client
\* gets exactly one response.text.delta with the event's response id (the
\* session's current one when the event has none) and its delta, never the
\* raw event, and a non-empty delta is handed to the synthesis link once:
\* sent on the open socket or appended to the buffer.
C17_InterceptStep ==
    event'.name = "openai.message" /\ event'.msg.parses /\ event'.msg.type \in TextDeltaTypes =>
        LET m == event'.msg
            d == IF m.delta # Null THEN m.delta[1] ELSE IF m.text # Null THEN m.text[1] ELSE ""
            id == IF m.response_id # Null THEN m.response_id ELSE currentResponseId
        IN /\ clientWs = "OPEN" =>
                 clientOut' = <<[type |-> "response.text.delta", raw |-> FALSE,
                                 response_id |-> id, delta |-> d]>>
           /\ \A k \in 1..Len(clientOut') : ~clientOut'[k].raw
           /\ d # "" =>
                 \/ elOut' = <<[socket |-> elevenLabsWs, text |-> d]>> /\ textBuffer' = textBuffer
                 \/ elOut' = <<>> /\ textBuffer' = Append(textBuffer, d)
           /\ d = "" => elOut' = <<>> /\ textBuffer' = textBuffer

C17_TextIntercepted == [][C17_InterceptStep]_vars

\* an audio transcript delta of response r2 shown to the client and spoken
C17_Witness ==
    /\ event.name = "openai.message"
    /\ event.msg.type = "response.audio_transcript.delta"
    /\ clientOut = <<[type |-> "response.text.delta", raw |-> FALSE,
                      response_id |-> Some("r2"), delta |-> "Hi"]>>
    /\ elOut = <<[socket |-> 1, text |-> "Hi"]>>

\* C18: a client frame of type audio.start, audio.chunk, audio.end or tts.stop
\* is never sent to the conversational upstream, whatever the session state
\* and whatever its payload.
C18_ControlStaysLocal ==
    \A k \in 1..Len(openaiOut) :
        ClientOrigin(k) /\ openaiOut[k].json => openaiOut[k].type \notin ControlTypes

\* C19: a client frame of an unrecognised type (or one that is not JSON) that
\* arrives while isReady holds and the conversational socket is open is sent
\* to that upstream by its own handler, once and as it came; a relayed frame
\* is always the frame just received, so relayed frames keep arrival order.
C19_RelayStep ==
    LET f == event'.frame IN
    event'.name = "client.message" /\ (~f.json \/ f.type \notin ControlTypes)
      /\ isReady /\ openaiWs = "OPEN" =>
        openaiOut' = <<[origin |-> "client", id |-> event'.id, type |-> f.type, json |-> f.json]>>

C19_VerbatimRelay ==
    /\ [](\A k \in 1..Len(openaiOut) :
             ClientOrigin(k) => /\ event.name = "client.message"
                                /\ openaiOut[k].id = hist.clientSeq
                                /\ Len(openaiOut) = 1)
    /\ [][C19_RelayStep]_vars

\* the third frame of the session relayed while a response is pending
C19_Witness ==
    /\ event.name = "client.message"
    /\ event.id = 3
    /\ isResponsePending
    /\ openaiOut = <<[origin |-> "client", id |-> 3, type |-> "input_audio_buffer.append",
                      json |-> TRUE]>>

\* C20: an 'error' of the conversational socket sends one relay.error to the
\* client and leaves the client socket, isReady and isResponsePending as they
\* were; the relay closes the client socket only in the 'close' handler of
\* the conversational socket, which also leaves isReady false.
C20_ErrorCloseStep ==
    /\ event'.name = "openai.error" =>
          /\ clientWs' = clientWs
          /\ isReady' = isReady
          /\ isResponsePending' = isResponsePending
          /\ clientWs = "OPEN" =>
                Len(clientOut') = 1 /\ clientOut'[1].type = "relay.error"
    /\ clientWs = "OPEN" /\ clientWs' = "CLOSING" => event'.name = "openai.close"
    /\ event'.name = "openai.close" =>
          /\ ~isReady'
          /\ clientWs = "OPEN" => clientWs' = "CLOSING"

C20_ErrorVersusClose == [][C20_ErrorCloseStep]_vars

\* an upstream error on a ready session with a response pending
C20_Witness ==
    /\ event.name = "openai.error"
    /\ clientWs = "OPEN"
    /\ isReady /\ isResponsePending
    /\ Len(clientOut) = 1 /\ clientOut[1].type = "relay.error"

\* the pipeline status before and after the handler just run
StatusStep(from, to) ==
    transcriptionState.status = from /\ transcriptionState'.status = to

\* the handler just run was clientWs.on('message') for a control frame of this type
Handled(type) ==
    event'.name = "client.message" /\ event'.frame.json /\ event'.frame.type = type

\* a chunk or an audio.end that finds a cap exceeded
CapBreach ==
    \/ /\ Handled("audio.chunk") /\ event'.frame.data.kind = "base64"
       /\ \/ transcriptionState.totalBytes + Base64DecodedLen(event'.frame.data.chars)
                > MAX_AUDIO_BYTES
          \/ TooLong(transcriptionState)
    \/ Handled("audio.end") /\ TooLong(transcriptionState)

\* the transitions of the transcription state machine as drawn
DrawnTransition ==
    \/ StatusStep("idle", "recording") /\ Handled("audio.start")
    \/ StatusStep("recording", "processing") /\ Handled("audio.end")
    \/ StatusStep("processing", "idle") /\ event'.name \in {"stt.done", "client.close"}
    \/ StatusStep("recording", "idle") /\ (CapBreach \/ event'.name = "client.close")

\* C21 as stated: the pipeline status changes only from idle to recording on
\* an accepted audio.start, from recording to processing on audio.end, from
\* processing to idle when the provider call ends, from recording to idle on
\* a size or time cap breach, and to idle when the client disconnects.
C21_DrawnStep ==
    transcriptionState'.status # transcriptionState.status => DrawnTransition

C21_DrawnOnly == [][C21_DrawnStep]_vars

\* C21, amended: as above, and from recording to idle on an audio.end that
\* finds no chunk buffered (answered no_audio), without passing through
\* processing.
C21_StatusStep ==
    transcriptionState'.status # transcriptionState.status =>
        \/ DrawnTransition
        \/ /\ StatusStep("recording", "idle") /\ Handled("audio.end")
           /\ transcriptionState.audioChunks = <<>>

C21_StateMachine == [][C21_StatusStep]_vars

\* an audio.end within the time cap, on a recording without chunks, answered
\* no_audio with the pipeline idle again
C21_Witness ==
    /\ IsClientFrame("audio.end")
    /\ transcriptionState = IdleState
    /\ Len(clientOut) = 1
    /\ clientOut[1].type = "transcript.error"
    /\ clientOut[1].code = "no_audio"

\* C22: time cap.  While the pipeline is recording, the time since the
\* accepted audio.start is at most MAX_AUDIO_SECONDS; a chunk or an audio.end
\* that finds the cap exceeded resets the pipeline to idle with empty buffers
\* and is answered by transcript.error audio_too_long; no recording longer
\* than the cap is handed to the STT orchestrator.
C22_BreachStep ==
    /\ transcriptionState.status = "recording" /\ TooLong(transcriptionState)
    /\ \/ Handled("audio.chunk") /\ event'.frame.data.kind = "base64"
       \/ Handled("audio.end")
    => /\ transcriptionState' = IdleState
       /\ sttCalls' = sttCalls
       /\ clientWs = "OPEN" =>
             /\ Len(clientOut') = 1
             /\ clientOut'[1].type = "transcript.error"
             /\ clientOut'[1].code = "audio_too_long"

C22_TimeCap ==
    /\ [](/\ transcriptionState.status = "recording" => ~TooLong(transcriptionState)
          /\ \A k \in 1..Len(sttCalls) :
                sttCalls[k].recordingDuration <= MAX_AUDIO_SECONDS * MsPerSecond)
    /\ [][C22_BreachStep]_vars

\* C23: start marker.  In every turn (from one speech_stopped to the next) in
\* which the client gets synthesized audio, it gets exactly one tts.start, and
\* gets it before the turn's first response.audio.delta; later fragments of
\* the turn bring no further tts.start.
C23_StartMarker ==
    /\ hist.tts.starts <= 1
    /\ ~hist.tts.unmarked

\* C24: cancellation.  A tts.stop that finds the synthesis socket open closes
\* it and sets one reconnect timer; when the timer fires the session gets a
\* new synthesis socket, and every timer set does fire; tts.stop sends
\* nothing to the client.
C24_StopStep ==
    /\ Handled("tts.stop") =>
          /\ clientOut' = <<>>
          /\ ElOpen => /\ elSockets'[elevenLabsWs] = "CLOSING"
                       /\ timers' = timers + 1
    /\ event'.name = "timer" /\ ~ElOpen =>
          /\ elevenLabsWs' = Len(elSockets) + 1
          /\ elSockets' = Append(elSockets, "CONNECTING")

HandshakeState ==
    IF openaiWs = "CONNECTING" THEN "connecting"
    ELSE IF ~hist.createdSeen THEN "awaiting_created"
    ELSE IF ~hist.updatedSeen THEN "configuring"
    ELSE "active"

\* C25: handshake state machine.  A client frame is sent to the
\* conversational upstream, and a speech_stopped event makes the relay send
\* response.create, only in state active, that is after session.updated has
\* confirmed the configuration; never in connecting, awaiting_created or
\* configuring.
C25_ActiveOnly ==
    (\E k \in 1..Len(openaiOut) : ClientOrigin(k) \/ openaiOut[k].type = "response.create")
        => HandshakeState = "active"

\* the session.update frames the relay itself put on the conversational socket
Updates == {k \in 1..Len(openaiOut) : openaiOut[k] = RelayMsg("session.update")}

\* C26: one-time configuration.  The relay sends session.update at most once
\* in a session, and only in the handler of session.created, which has set
\* isReady and has sent the sanitized session.created acknowledgment to the
\* client by then.
C26_ConfigureStep ==
    openaiOut' # <<>> /\ (\E k \in 1..Len(openaiOut') : openaiOut'[k] = RelayMsg("session.update")) =>
        /\ ~hist.updateSent
        /\ Len(SelectSeq(openaiOut', LAMBDA x : x = RelayMsg("session.update"))) = 1
        /\ event'.name = "openai.message" /\ event'.msg.parses
        /\ event'.msg.type = "session.created"
        /\ isReady'
        /\ clientWs = "OPEN" => clientOut'[1] = [type |-> "session.created", raw |-> FALSE]

C26_OneTimeConfiguration ==
    /\ [](Cardinality(Updates) <= 1)
    /\ [][C26_ConfigureStep]_vars

\* session.created on a session whose client already had a frame held back:
\* acknowledgment to the client, configuration to the upstream
C26_Witness ==
    /\ IsUpstream("session.created")
    /\ hist.blocked # {}
    /\ isReady
    /\ clientOut[1] = [type |-> "session.created", raw |-> FALSE]
    /\ Cardinality(Updates) = 1

\* C27: handshake visibility.  When the conversational upstream has sent
\* session.created and later session.updated, a client that is still
\* connected has received a session.created message and, after it, a
\* session.updated message.
C27_HandshakeVisible ==
    hist.confirmed /\ clientWs = "OPEN" => hist.acks.created /\ hist.acks.updated

\* session.updated has just been passed on to a client that had its
\* session.created before
C27_Witness ==
    /\ IsUpstream("session.updated")
    /\ hist.confirmed
    /\ clientWs = "OPEN"
    /\ hist.acks = [created |-> TRUE, updated |-> TRUE]
    /\ clientOut[1] = [type |-> "session.updated", raw |-> FALSE]

\* the one transcript.error with this code went to the client, if connected
AnsweredError(code) ==
    clientWs = "OPEN" =>
        /\ Len(clientOut') = 1
        /\ clientOut'[1].type = "transcript.error"
        /\ clientOut'[1].code = code

\* C28: transcription error vocabulary.  An audio.end taken for processing
\* that fails is answered by one transcript.error: no_audio when no chunk is
\* buffered; otherwise, by the status of the error the orchestrator throws,
\* rate_limited for 429, auth_error for 401 or 403, server_error for a
\* status of 500 or more, internal_error for anything else (no status
\* included); the pipeline is idle afterwards.
C28_VocabularyStep ==
    /\ Handled("audio.end") /\ TRANSCRIPTION_ENABLED
         /\ transcriptionState.status = "recording" /\ ~TooLong(transcriptionState)
         /\ transcriptionState.audioChunks = <<>> =>
          /\ AnsweredError("no_audio")
          /\ transcriptionState' = IdleState
          /\ sttCalls' = sttCalls
    /\ event'.name = "stt.done" /\ event'.result.outcome.kind = "throw" =>
          LET st == event'.result.outcome.error.status
              n == IF st = Null THEN 0 ELSE st[1]
          IN /\ AnsweredError(IF n = 429 THEN "rate_limited"
                              ELSE IF n \in {401, 403} THEN "auth_error"
                              ELSE IF n >= 500 THEN "server_error"
                              ELSE "internal_error")
             /\ transcriptionState' = IdleState

AllStamped ==
    /\ latencyMetrics.t1SpeechStopped # Null
    /\ latencyMetrics.t2FirstTextDelta # Null
    /\ latencyMetrics.t3FirstAudioDelta # Null

\* C29: latency report exactly once.  In a turn (from one speech_stopped to
\* the next) whose T1, T2 and T3 have all been set, the report has been
\* emitted once, with one measurement appended, and from then on T1, T2 and
\* T3 stay as they are until the next speech_stopped.
C29_FrozenStep ==
    AllStamped /\ ~(event'.name = "openai.message" /\ event'.msg.parses
                      /\ event'.msg.type = "input_audio_buffer.speech_stopped") =>
        /\ latencyMetrics'.t1SpeechStopped = latencyMetrics.t1SpeechStopped
        /\ latencyMetrics'.t2FirstTextDelta = latencyMetrics.t2FirstTextDelta
        /\ latencyMetrics'.t3FirstAudioDelta = latencyMetrics.t3FirstAudioDelta
        /\ latencyMetrics'.measurements = latencyMetrics.measurements

C29_ReportOnce ==
    /\ [](hist.reports <= 1 /\ (AllStamped => hist.reports = 1))
    /\ [][C29_FrozenStep]_vars

\* C30: turn boundary.  T2 and T3 are recorded only after the turn's T1: in
\* every state, T2 set or T3 set implies T1 set.
C30_TurnBoundary ==
    latencyMetrics.t2FirstTextDelta # Null \/ latencyMetrics.t3FirstAudioDelta # Null
        => latencyMetrics.t1SpeechStopped # Null

\* the handler just run was openaiWs.on('message') for a turn-completion event
Completion ==
    /\ event'.name = "openai.message" /\ event'.msg.parses
    /\ event'.msg.type \in TextDoneTypes \cup {"response.done"}

\* C31: end-of-text flush.  Every turn-completion event (response.text.done,
\* response.audio_transcript.done, response.output_text.done, response.done)
\* makes the relay send the end-of-text marker on the session's synthesis
\* socket, whenever that socket is open to take it.
C31_MarkerStep ==
    Completion /\ ElOpen =>
        \E k \in 1..Len(elOut') : elOut'[k] = [socket |-> elevenLabsWs, text |-> ""]

C31_EndOfTextFlush == [][C31_MarkerStep]_vars

\* C32: audio framing.  Every response.audio.delta and response.audio.done
\* sent to the client carries the response id of the turn whose text produced
\* that audio, however text deltas and synthesis messages interleave.
C32_FramingStep ==
    event'.name = "el.message" =>
        \A k \in 1..Len(clientOut') :
            clientOut'[k].type \in {"response.audio.delta", "response.audio.done"} =>
                \A r \in event'.owner : clientOut'[k].response_id = r

C32_AudioFraming == [][C32_FramingStep]_vars

\* C33: buffer release.  Whenever the pipeline is idle its chunk buffer is
\* empty, totalBytes is 0 and startTime is null: every way into idle
\* (transcript, provider error, no_audio, cap breach, disconnect) releases
\* the buffered audio.
C33_BufferRelease ==
    transcriptionState.status = "idle" =>
        /\ transcriptionState.audioChunks = <<>>
        /\ transcriptionState.totalBytes = 0
        /\ transcriptionState.startTime = Null

\* a recording of two bytes went to the providers, which failed: idle, and
\* nothing kept
C33_Witness ==
    /\ event.name = "stt.done"
    /\ event.call.audioBuffer = 2
    /\ event.result.outcome.kind = "throw"
    /\ transcriptionState.status = "idle"
    /\ transcriptionState.audioChunks = <<>>

\* C34: no stray reconnect.  Once the client socket has closed the session
\* creates no further upstream socket; the reconnect timer of a tts.stop sent
\* shortly before the disconnect creates none.
C34_NoNewSocketStep ==
    clientWs = "CLOSED" => Len(elSockets') = Len(elSockets)

C34_NoStrayReconnect == [][C34_NoNewSocketStep]_vars

\* C35: redaction.  The details of every relay.error sent to the client have
\* passed through redactSecrets: redacting them again changes nothing, so no
\* bearer token and no API key of an upstream error message reaches the client.
C35_Redaction ==
    \A k \in 1..Len(clientOut) :
        clientOut[k].type = "relay.error" =>
            clientOut[k].details = redactSecrets(clientOut[k].details)

\* C36: synthesis connected-flag consistency.  elevenLabsConnected is true
\* exactly when the current synthesis socket is open; the close or error event
\* of an earlier socket does not clear it while the replacement is open.
C36_FlagConsistency == elevenLabsConnected <=> ElOpen

\* C37: single synthesis socket.  After every step at most one synthesis
\* socket of the session is connecting or open, and an audio frame forwarded
\* to the client comes from that socket, the current one.
C37_OneSocketStep ==
    /\ Cardinality({i \in 1..Len(elSockets') : elSockets'[i] \in {"CONNECTING", "OPEN"}}) <= 1
    /\ event'.name = "el.message" /\ clientOut' # <<>> => event'.socket = elevenLabsWs'

C37_SingleSocket == [][C37_OneSocketStep]_vars

\* C38: handshake events reach the client exactly once.  For a session.created
\* or session.updated event of the conversational upstream a connected client
\* is sent one message of that type, the sanitized one, and no raw payload.
C38_HandshakeOnce ==
    \A type \in {"session.created", "session.updated"} :
        IsUpstream(type) /\ clientWs = "OPEN" =>
            clientOut = <<[type |-> type, raw |-> FALSE]>>

\* the handler just run appended a latency measurement
Measured == Len(latencyMetrics'.measurements) > Len(latencyMetrics.measurements)

\* C39: measurement ordering.  When a measurement is emitted the three stamps
\* it is computed from are ordered, T1 not after T2 and T2 not after T3, and
\* none of the intervals any measurement reports is negative, whatever the
\* order of speech_stopped, text deltas and synthesis audio.
C39_OrderedStep ==
    /\ Measured =>
          /\ event'.name = "el.message"
          /\ latencyMetrics'.t1SpeechStopped[1] <= latencyMetrics'.t2FirstTextDelta[1]
          /\ latencyMetrics'.t2FirstTextDelta[1] <= latencyMetrics'.t3FirstAudioDelta[1]
    /\ \A k \in 1..Len(latencyMetrics'.measurements) :
          /\ latencyMetrics'.measurements[k].t1ToT2 >= 0
          /\ latencyMetrics'.measurements[k].t2ToT3 >= 0
          /\ latencyMetrics'.measurements[k].total >= 0

C39_MeasurementOrdering == [][C39_OrderedStep]_vars

\* a measurement of a turn whose three stamps were taken at different readings
\* of the clock
C39_Witness ==
    /\ event.name = "el.message"
    /\ Len(latencyMetrics.measurements) = 1
    /\ latencyMetrics.t1SpeechStopped[1] < latencyMetrics.t2FirstTextDelta[1]
    /\ latencyMetrics.t2FirstTextDelta[1] < latencyMetrics.t3FirstAudioDelta[1]
    /\ latencyMetrics.measurements[1].total > 0

\* C40: responsePending recovery.  Once the conversational upstream has
\* answered with an error event, isResponsePending is false, so that the next
\* speech_stopped triggers a response.create.
C40_PendingRecovery == IsUpstream("error") => ~isResponsePending

====
